---- MODULE Spec2Model ----
(***************************************************************************)
(* Model of src/spoofer_collector.py: the SpooferCollector object, its     *)
(* bounded-retry page fetcher, record classifier, progress estimator and   *)
(* the collect_data driver loop.                                           *)
(*                                                                         *)
(* Representation of Python values:                                        *)
(*   - a str that the program concatenates or splits is a sequence of its  *)
(*     parts (a URL is the sequence of the pieces joined by f-strings, a   *)
(*     file is the sequence of tokens written to it, "\n" being a token);  *)
(*   - a dict is a record with one "has<Key>" flag per key the program     *)
(*     looks up, so that "key in dict" and dict.get(key, default) are      *)
(*     modelled separately from the value;                                 *)
(*   - an Optional[int] is <<>> for None and <<n>> for n.                  *)
(***************************************************************************)
EXTENDS Integers, Sequences, FiniteSets, TLC

\* ------------------------------------------------------------------ bounds
\* Largest number of fetch_page calls explored in one run.
MaxFetches == 2
\* Largest number of session records served over one run.
MaxRecords == 3
\* Largest wall-clock reading (seconds since start_time) explored.
MaxElapsed == 3
\* Longest member list handed to process_data when it is called on its own.
MaxClassifyLen == 1
\* Largest pages_processed explored when estimate_completion is called on its own.
MaxProcessed == 4

\* --------------------------------------------------------- JSON field values
Absent == "<absent>"       \* the key is missing from the dict
Null == "<null>"           \* the key is present with JSON null (Python None)

\* Python truthiness of a str-or-None field value returned by dict.get(key)
TruthyStr(v) == v \notin {Absent, Null, ""}

MkSession(sid, c4, priv, routed) ==
    [session |-> sid, asn4 |-> "64500", client4 |-> c4, country |-> "nl",
     privatespoof |-> priv, routedspoof |-> routed, timestamp |-> "2025-01-01T00:00:00Z"]

Client4Values == {Absent, Null, "", "192.0.2.1"}
SpoofValues == {Absent, "received", "Received", "received ", "blocked"}

\* every session record handed to the classifier when it is exercised on its own
AllSessions ==
    {MkSession("s", c, p, r) : c \in Client4Values, p \in SpoofValues, r \in SpoofValues}

SBoth == MkSession("s1", "192.0.2.1", "received", "received")
SRoutedOnly == MkSession("s2", "192.0.2.2", "blocked", "received")
SPrivateOnly == MkSession("s3", "192.0.2.3", "received", "blocked")
SNeither == MkSession("s4", "192.0.2.4", "blocked", "blocked")
SNoClient == MkSession("s5", Absent, "received", "received")

\* the session records the modelled API serves during a whole run
FeedSessions == {SBoth, SRoutedOnly, SPrivateOnly, SNeither, SNoClient}

\* all sequences over S of length 0..n
RECURSIVE SeqsUpTo(_, _)
SeqsUpTo(S, n) ==
    IF n = 0 THEN {<<>>}
    ELSE LET shorter == SeqsUpTo(S, n - 1)
         IN  shorter \cup {Append(s, x) : s \in {t \in shorter : Len(t) = n - 1}, x \in S}

\* ------------------------------------------------------------------- URLs
api_base == <<"https://api.spoofer.caida.org">>
\* f"/sessions?timestamp[after]={self.start_date}"
StartUrl == <<"/sessions?timestamp[after]=", "2025-01-01">>
RelNext == <<"/sessions?timestamp%5Bafter%5D=2025-01-01&page=2">>
\* a hydra:last reference, as the list last_url.split("&") of the lists p.split("=")
LastPage3 == << <<"/sessions?timestamp%5Bafter%5D", "2025-01-01">>, <<"page", "3">> >>
\* an absolute hydra:next reference: the same reference with scheme and host
AbsNext == api_base \o RelNext
\* hydra:last references naming page 0, carrying no page parameter, carrying
\* a page value that is no numeral, and carrying an empty page value
LastPage0 == << <<"/sessions?timestamp%5Bafter%5D", "2025-01-01">>, <<"page", "0">> >>
LastNoPageParam == << <<"/sessions?timestamp%5Bafter%5D", "2025-01-01">> >>
LastPageWord == << <<"/sessions?timestamp%5Bafter%5D", "2025-01-01">>, <<"page", "last">> >>
LastPageEmpty == << <<"/sessions?timestamp%5Bafter%5D", "2025-01-01">>, <<"page", "">> >>
\* a hydra:last that is JSON null: Python None, which is no str
NullRef == << <<"<null>">> >>

\* truthiness of a str modelled as a sequence of parts
TruthyUrl(u) == u # <<>>

\* ------------------------------------------------------------------ pages
\* A decoded JSON object as returned by response.json().
MkView(hasNext, next, hasLast, last) ==
    [hasNext |-> hasNext, next |-> next, hasLast |-> hasLast, last |-> last]
NoView == MkView(FALSE, <<>>, FALSE, <<>>)

MkPage(hasOther, hasMember, member, hasView, view) ==
    [isNone |-> FALSE, hasOther |-> hasOther, hasMember |-> hasMember, member |-> member,
     hasView |-> hasView, view |-> view]

\* Python None, as returned by fetch_page after the last failed attempt
NoneData == [isNone |-> TRUE, hasOther |-> FALSE, hasMember |-> FALSE, member |-> <<>>,
             hasView |-> FALSE, view |-> NoView]
\* the empty JSON object {}
EmptyPayload == MkPage(FALSE, FALSE, <<>>, FALSE, NoView)

\* bool(data): None and {} are falsy, every dict with a key is truthy
Truthy(d) == ~d.isNone /\ (d.hasOther \/ d.hasMember \/ d.hasView)

\* data.get("hydra:member", [])
Members(d) == IF d.hasMember THEN d.member ELSE <<>>

\* views served while the control flow of the run is explored: hydra:next is
\* missing, the empty string or a relative reference; hydra:last is missing
\* or names page 3
ControlViews ==
    {MkView(hn, n, hl, l) :
        hn \in {TRUE}, n \in {<<>>, RelNext}, hl \in {TRUE}, l \in {LastPage3}}
    \cup {MkView(TRUE, n, FALSE, <<>>) : n \in {<<>>, RelNext}}
    \cup {MkView(FALSE, <<>>, TRUE, LastPage3), MkView(FALSE, <<>>, FALSE, <<>>)}

\* the pages served while the control flow of the run is explored: {}, an
\* object with neither key, and pages of zero or one record, with every view
ControlPages ==
    {EmptyPayload, MkPage(TRUE, FALSE, <<>>, FALSE, NoView)}
    \cup {MkPage(TRUE, TRUE, m, FALSE, NoView) : m \in {<<>>, <<SBoth>>}}
    \cup {MkPage(TRUE, TRUE, m, TRUE, v) : m \in {<<>>, <<SBoth>>}, v \in ControlViews}

\* the hydra:last values served while the pagination metadata is explored:
\* well formed, malformed and null
MetadataLasts ==
    {LastPage3, LastPage0, LastNoPageParam, LastPageWord, LastPageEmpty, NullRef}

\* views served while the pagination metadata is explored: hydra:next missing,
\* relative or absolute; hydra:last missing or any of the values above
MetadataViews ==
    {MkView(TRUE, n, TRUE, l) : n \in {RelNext, AbsNext}, l \in MetadataLasts}
    \cup {MkView(TRUE, n, FALSE, <<>>) : n \in {RelNext, AbsNext}}
    \cup {MkView(FALSE, <<>>, TRUE, l) : l \in MetadataLasts}

\* the pages served while the pagination metadata is explored: no records,
\* no view or any of the views above
MetadataPages ==
    {MkPage(TRUE, TRUE, <<>>, FALSE, NoView)}
    \cup {MkPage(TRUE, TRUE, <<>>, TRUE, v) : v \in MetadataViews}

\* the pages served while the written records are explored: every member
\* list over FeedSessions, ending the chain or continuing it
RecordPages ==
    {MkPage(TRUE, TRUE, m, FALSE, NoView) : m \in SeqsUpTo(FeedSessions, MaxRecords)}
    \cup {MkPage(TRUE, TRUE, m, TRUE, MkView(TRUE, RelNext, FALSE, <<>>)) :
            m \in SeqsUpTo(FeedSessions, MaxRecords)}

\* ------------------------------------------------------------ output files
NL == "\n"

\* file_header of collect_data: a four-line comment block and a blank line
file_header ==
    <<"# IPv4 clients that can spoof - Data from CAIDA Spoofer API", NL,
      "# Collection date: ", "2026-01-01 00:00:00", NL,
      "# Data period: ", "2025-01-01", " to present", NL,
      "# Format: Formatted text", NL, NL>>

\* what an output path may hold before the run opens it
StaleContents == {<<>>, <<"stale line without newline">>}

\* open(path, 'a'): what the file held stays
OpenForAppend(old) == old

\* open(path, 'w'): the file is truncated
OpenForWrite(old) == <<>>

\* file.write(s): s is appended after everything written so far
Write(content, s) == content \o s

\* ---------------------------------------------------------- format_record
\* session.get(key, default) rendered inside an f-string
Render(v, default) == IF v = Absent THEN default ELSE IF v = Null THEN "None" ELSE v

format_record(session) ==
    <<"Session: https://spoofer.caida.org/report.php?sessionid=",
      Render(session.session, "None"),
      ", ASN4 number: ", Render(session.asn4, "N/A"),
      ", Client4: ", Render(session.client4, "N/A"),
      ", Country: ", Render(session.country, "N/A"),
      ", Privatespoof: ", Render(session.privatespoof, "N/A"),
      ", Routedspoof: ", Render(session.routedspoof, "N/A"),
      ", Timestamp: ", Render(session.timestamp, "N/A")>>

\* ------------------------------------------------------------ process_data
\* a test for the key instead of its value: "client4" in session
EligibleKeyPresent(session) == session.client4 # Absent
\* a comparison that ignores case
RoutedMatchAnyCase(session) == session.routedspoof \in {"received", "Received"}

\* if session.get("client4"):
Eligible(session) == TruthyStr(session.client4)
\* session.get("routedspoof") == "received"
RoutedMatch(session) == session.routedspoof = "received"
\* session.get("privatespoof") == "received"
PrivateMatch(session) == session.privatespoof = "received"

\* the loop body with the second test written as elif
ProcessSessionElif(acc, session) ==
    IF Eligible(session)
    THEN IF RoutedMatch(session)
         THEN [acc EXCEPT !.rf = Write(acc.rf, format_record(session) \o <<NL>>),
                          !.rc = acc.rc + 1]
         ELSE IF PrivateMatch(session)
         THEN [acc EXCEPT !.pf = Write(acc.pf, format_record(session) \o <<NL>>),
                          !.pc = acc.pc + 1]
         ELSE acc
    ELSE acc

\* body of the for loop of process_data, applied to one session;
\* acc = [rf, pf, rc, pc]: both file contents and both page counts
ProcessSession(acc, session) ==
    IF Eligible(session)
    THEN LET r == RoutedMatch(session)
             p == PrivateMatch(session)
         IN  [rf |-> IF r THEN Write(acc.rf, format_record(session) \o <<NL>>) ELSE acc.rf,
              rc |-> IF r THEN acc.rc + 1 ELSE acc.rc,
              pf |-> IF p THEN Write(acc.pf, format_record(session) \o <<NL>>) ELSE acc.pf,
              pc |-> IF p THEN acc.pc + 1 ELSE acc.pc]
    ELSE acc

\* the members taken last to first
RECURSIVE ProcessMembersReversed(_, _, _)
ProcessMembersReversed(acc, members, i) ==
    IF i > Len(members) THEN acc
    ELSE ProcessMembersReversed(ProcessSession(acc, members[Len(members) + 1 - i]),
                                members, i + 1)

\* the for loop over data.get("hydra:member", []), in list order
RECURSIVE ProcessMembers(_, _, _)
ProcessMembers(acc, members, i) ==
    IF i > Len(members) THEN acc
    ELSE ProcessMembers(ProcessSession(acc, members[i]), members, i + 1)

process_data(d, rf, pf) ==
    ProcessMembers([rf |-> rf, pf |-> pf, rc |-> 0, pc |-> 0], Members(d), 1)

\* -------------------------------------------------------- update_progress
None == <<>>
Some(n) == <<n>>
\* truthiness of an Optional[int]: None and 0 are falsy
TruthyInt(o) == o # None /\ o[1] # 0

\* int(s) on the numerals the modelled API uses; <<>> stands for ValueError
Numerals == ("0" :> 0) @@ ("2" :> 2) @@ ("3" :> 3) @@ ("5" :> 5)
ParseInt(s) == IF s \in DOMAIN Numerals THEN Some(Numerals[s]) ELSE None

\* p.startswith("page="), p given as p.split("=")
IsPageParam(p) == Len(p) >= 2 /\ p[1] = "page"

\* [p for p in last_url.split("&") if p.startswith("page=")]
PageParams(last_url) == SelectSeq(last_url, IsPageParam)

\* last_url.split("&") on a value that is no str raises AttributeError, which
\* the except clause (ValueError, IndexError) does not catch
UpdateRaises(est, d) ==
    ~TruthyInt(est) /\ d.hasView /\ d.view.hasLast /\ d.view.last = NullRef

\* the estimate update_progress leaves in estimated_total_pages
EstimateAfter(est, d) ==
    IF ~TruthyInt(est) /\ d.hasView /\ d.view.hasLast
    THEN LET page_param == PageParams(d.view.last)
         IN  IF page_param # <<>>
             THEN LET parsed == ParseInt(page_param[1][2])
                  IN  IF parsed # None THEN parsed ELSE est    \* except ValueError: pass
             ELSE est
    ELSE est

\* ---------------------------------------------------- estimate_completion
\* int(n / d) for d > 0: truncation toward zero
TruncDiv(n, d) == IF n >= 0 THEN n \div d ELSE -((-n) \div d)

\* round(n / d) to the nearest integer, ties to even, for n >= 0 and d > 0
RoundHalfEven(n, d) ==
    LET q == n \div d
        r == n % d
    IN  IF 2 * r < d THEN q
        ELSE IF 2 * r > d THEN q + 1
        ELSE IF q % 2 = 0 THEN q ELSE q + 1

Eta(kind, a, b) == [kind |-> kind, a |-> a, b |-> b]
Placeholder == Eta("Calculating...", 0, 0)

\* the estimator with the placeholder kept for pages_processed < 1 only
estimate_completion_from_first(pp, elapsed, est) ==
    IF pp < 1 THEN Placeholder
    ELSE IF TruthyInt(est)
         THEN LET num == (est[1] - pp) * elapsed
              IN  IF num < 60 * pp THEN Eta("seconds", TruncDiv(num, pp), 0)
                  ELSE IF num < 3600 * pp THEN Eta("minutes", TruncDiv(num, 60 * pp), 0)
                  ELSE Eta("hours, minutes", TruncDiv(num, 3600 * pp),
                           TruncDiv(num % (3600 * pp), 60 * pp))
         ELSE Eta("pages/second", RoundHalfEven(100 * pp, elapsed), 0)

\* pp = self.pages_processed, elapsed = time.time() - self.start_time (whole
\* seconds, > 0), est = self.estimated_total_pages
estimate_completion(pp, elapsed, est) ==
    IF pp < 2 THEN Placeholder
    ELSE IF TruthyInt(est)
         THEN LET remaining_pages == est[1] - pp
                  \* estimated_seconds_left = num / pp
                  num == remaining_pages * elapsed
              IN  IF num < 60 * pp THEN Eta("seconds", TruncDiv(num, pp), 0)
                  ELSE IF num < 3600 * pp THEN Eta("minutes", TruncDiv(num, 60 * pp), 0)
                  ELSE Eta("hours, minutes", TruncDiv(num, 3600 * pp),
                           TruncDiv(num % (3600 * pp), 60 * pp))
         \* f"Processing {1/avg_time_per_page:.2f} pages/second", in hundredths
         ELSE Eta("pages/second", RoundHalfEven(100 * pp, elapsed), 0)

ElapsedValues == 1..MaxElapsed

\* ------------------------------------------------------------------ state
VARIABLES
    \* SpooferCollector fields
    total_records, total_routed, total_private, page, pages_processed,
    estimated_total_pages,
    \* collect_data: position, locals and the two output files
    pc, next_url, data, routed_count, private_count,
    routed_file, private_file, routed_open, private_open,
    \* fetch_page's frame, live from the call until the caller has the result
    url, attempt, retry_delay,
    \* console: the overwritten progress line, the "Failed to fetch data.
    \* Stopping." notice, the final summary, fetch_page's diagnostics
    progress_line, stop_notice, summary, diag,
    \* whether response.json()'s decode error is a RequestException in the
    \* installed requests (it is from 2.27 on, a plain ValueError before)
    json_error_caught,
    \* history: outcome of every attempt and every sleep of the fetch_page call
    \* in progress (dropped with its frame), the records of all payloads decoded so far (in the
    \* order served), the number of payloads decoded, the number of
    \* fetch_page calls
    outcomes, sleeps, served, pages_fetched, fetch_calls

fields == <<total_records, total_routed, total_private, page, pages_processed,
            estimated_total_pages>>
files == <<routed_file, private_file, routed_open, private_open>>
fetcher == <<url, attempt, retry_delay, outcomes, sleeps, diag>>
console == <<progress_line, stop_notice, summary>>
vars == <<fields, files, fetcher, console, pc, next_url, data, routed_count,
          private_count, json_error_caught, served, pages_fetched, fetch_calls>>

\* a retry budget of one attempt more
max_retries_plus_one == 3 + 1
\* a delay that is never doubled
BackoffConstant(d) == d

\* fetch_page's retry policy
max_retries == 3
InitialRetryDelay == 2
\* retry_delay *= 2
Backoff(d) == d * 2

\* __init__ followed by nothing else: the object before collect_data runs
InitObject ==
    /\ total_records = 0
    /\ total_routed = 0
    /\ total_private = 0
    /\ page = 1
    /\ pages_processed = 0
    /\ estimated_total_pages = None

\* no fetch_page call is in progress
NoFrame ==
    /\ url = <<>>
    /\ attempt = 0
    /\ retry_delay = InitialRetryDelay
    /\ diag = <<>>
    /\ outcomes = <<>>
    /\ sleeps = <<>>

\* fetch_page has returned and its result is taken: its frame is gone
DropFrame ==
    /\ url' = <<>>
    /\ attempt' = 0
    /\ retry_delay' = InitialRetryDelay
    /\ diag' = <<>>
    /\ outcomes' = <<>>
    /\ sleeps' = <<>>

InitIdle ==
    /\ next_url = <<>>
    /\ routed_count = 0
    /\ private_count = 0
    /\ NoFrame
    /\ progress_line = <<>>
    /\ stop_notice = FALSE
    /\ summary = <<>>
    /\ served = <<>>
    /\ pages_fetched = 0
    /\ fetch_calls = 0

Init ==
    /\ InitObject
    /\ InitIdle
    /\ data = NoneData
    /\ pc = "start"
    /\ routed_file \in StaleContents
    /\ private_file \in StaleContents
    /\ routed_open = FALSE
    /\ private_open = FALSE
    /\ json_error_caught \in BOOLEAN

\* ------------------------------------------------------------ collect_data
\* lines 212-227: build the first URL, open both files, write the header
Start ==
    /\ pc = "start"
    /\ next_url' = StartUrl
    /\ routed_file' = Write(OpenForWrite(routed_file), file_header)
    /\ private_file' = Write(OpenForWrite(private_file), file_header)
    /\ routed_open' = TRUE
    /\ private_open' = TRUE
    /\ pc' = "loop"
    /\ UNCHANGED <<fields, fetcher, console, data, routed_count, private_count,
                   json_error_caught, served, pages_fetched, fetch_calls>>

\* a loop that does not test next_url
LoopContinuesAlways(u) == TRUE

\* while next_url:
LoopContinues(u) == TruthyUrl(u)

\* line 232: data = self.fetch_page(f"{self.api_base}{next_url}"), up to the
\* first requests.get
FetchCall ==
    /\ pc = "loop"
    /\ LoopContinues(next_url)
    /\ fetch_calls < MaxFetches
    /\ url' = api_base \o next_url
    /\ attempt' = 0
    /\ retry_delay' = InitialRetryDelay
    /\ outcomes' = <<>>
    /\ sleeps' = <<>>
    /\ diag' = <<>>
    /\ fetch_calls' = fetch_calls + 1
    /\ pc' = "attempt"
    /\ UNCHANGED <<fields, files, console, next_url, data, routed_count, private_count,
                   json_error_caught, served, pages_fetched>>

\* lines 70-72: the request succeeds and its body decodes to payload
AttemptSuccess(pages) ==
    /\ pc = "attempt"
    /\ \E payload \in pages :
        /\ Len(served) + Len(Members(payload)) <= MaxRecords
        /\ data' = payload
        /\ served' = served \o Members(payload)
    /\ pages_fetched' = pages_fetched + 1
    /\ outcomes' = Append(outcomes, "ok")
    /\ pc' = "returned"
    /\ UNCHANGED <<fields, files, console, next_url, routed_count, private_count,
                   json_error_caught, url, attempt, retry_delay, sleeps, diag, fetch_calls>>

\* lines 73-80: the except branch, for an attempt that raised a RequestException
HandleRequestException(kind) ==
    /\ outcomes' = Append(outcomes, kind)
    /\ IF attempt < max_retries - 1
       THEN /\ diag' = Append(diag, <<"Error fetching data. Retrying in", retry_delay>>)
            /\ pc' = "sleep"
            /\ data' = data
       ELSE /\ diag' = Append(diag, <<"Failed to fetch data after", max_retries>>)
            /\ pc' = "returned"
            /\ data' = NoneData
    /\ UNCHANGED <<fields, files, console, next_url, routed_count, private_count,
                   json_error_caught, url, attempt, retry_delay, sleeps, served,
                   pages_fetched, fetch_calls>>

\* requests.get or raise_for_status raises (connection error, timeout, HTTP status)
AttemptTransportError ==
    /\ pc = "attempt"
    /\ HandleRequestException("transport error")

\* response.json() raises on a body that is not JSON: caught by the except
\* clause when the decode error is a RequestException, otherwise it leaves
\* fetch_page and collect_data, whose with statement closes both files
AttemptDecodeError ==
    /\ pc = "attempt"
    /\ IF json_error_caught
       THEN HandleRequestException("decode error")
       ELSE /\ outcomes' = Append(outcomes, "decode error")
            /\ pc' = "crashed"
            /\ routed_open' = FALSE
            /\ private_open' = FALSE
            /\ UNCHANGED <<fields, console, next_url, data, routed_count, private_count,
                           json_error_caught, url, attempt, retry_delay, sleeps, diag,
                           served, pages_fetched, fetch_calls, routed_file, private_file>>

\* lines 76-77 and the next iteration of the for loop
Sleep ==
    /\ pc = "sleep"
    /\ sleeps' = Append(sleeps, retry_delay)
    /\ retry_delay' = Backoff(retry_delay)
    /\ attempt' = attempt + 1
    /\ pc' = "attempt"
    /\ UNCHANGED <<fields, files, console, next_url, data, routed_count, private_count,
                   json_error_caught, url, outcomes, diag, served, pages_fetched, fetch_calls>>

\* a terminal failure that is counted as a page before the loop is left
FailStopCounting ==
    /\ pc = "returned"
    /\ ~Truthy(data)
    /\ stop_notice' = TRUE
    /\ pages_processed' = pages_processed + 1
    /\ pc' = "break"
    /\ DropFrame
    /\ UNCHANGED <<total_records, total_routed, total_private, page,
                   estimated_total_pages, files, progress_line, summary, next_url, data,
                   routed_count, private_count, json_error_caught, served,
                   pages_fetched, fetch_calls>>

\* lines 234-236: if not data: print the notice and break
FailStop ==
    /\ pc = "returned"
    /\ ~Truthy(data)
    /\ stop_notice' = TRUE
    /\ pc' = "break"
    /\ DropFrame
    /\ UNCHANGED <<fields, files, progress_line, summary, next_url, data,
                   routed_count, private_count, json_error_caught, served, pages_fetched, fetch_calls>>

\* the line display_progress writes
ProgressLine(pg, tr, tp, eta) ==
    [page |-> pg, total_routed |-> tr, total_private |-> tp, eta |-> eta]

\* lines 253-257: the continuation reference the loop goes on with (<<>> for
\* None) and the page counter
NextUrlAfter(d) == IF d.hasView /\ d.view.hasNext THEN d.view.next ELSE <<>>
\* a page counter advanced after every page, the last one included
PageAfterAlways(pg, d) == pg + 1
PageAfter(pg, d) == IF d.hasView /\ d.view.hasNext THEN pg + 1 ELSE pg

\* a count of the eligible members only
RecordsInEligible(d) == Len(SelectSeq(Members(d), Eligible))

\* len(data.get("hydra:member", []))
RecordsIn(d) == Len(Members(d))

\* lines 238-257: one pass of the loop body on a fetched page
ProcessPage(clock) ==
    /\ pc = "returned"
    /\ Truthy(data)
    /\ ~UpdateRaises(estimated_total_pages, data)
    /\ LET written == process_data(data, routed_file, private_file)
           est == EstimateAfter(estimated_total_pages, data)
       IN  /\ pages_processed' = pages_processed + 1
           /\ estimated_total_pages' = est
           /\ routed_file' = written.rf
           /\ private_file' = written.pf
           /\ routed_count' = written.rc
           /\ private_count' = written.pc
           /\ total_records' = total_records + RecordsIn(data)
           /\ total_routed' = total_routed + written.rc
           /\ total_private' = total_private + written.pc
           /\ \E elapsed \in clock :
                progress_line' =
                    <<ProgressLine(page, total_routed + written.rc,
                                   total_private + written.pc,
                                   estimate_completion(pages_processed + 1, elapsed, est))>>
    /\ next_url' = NextUrlAfter(data)
    /\ page' = PageAfter(page, data)
    /\ pc' = "loop"
    /\ DropFrame
    /\ UNCHANGED <<stop_notice, summary, data, routed_open, private_open,
                   json_error_caught, served, pages_fetched, fetch_calls>>

\* lines 239, 180-189: update_progress counts the page and then raises on a
\* hydra:last that is no str; the exception leaves collect_data, whose with
\* statement closes both files
UpdateProgressRaises ==
    /\ pc = "returned"
    /\ Truthy(data)
    /\ UpdateRaises(estimated_total_pages, data)
    /\ pages_processed' = pages_processed + 1
    /\ routed_open' = FALSE
    /\ private_open' = FALSE
    /\ pc' = "crashed"
    /\ UNCHANGED <<total_records, total_routed, total_private, page,
                   estimated_total_pages, routed_file, private_file, fetcher, console,
                   next_url, data, routed_count, private_count, json_error_caught,
                   served, pages_fetched, fetch_calls>>

\* the summary printed by lines 260-266
Summary(tr, trouted, tprivate) ==
    [total_records |-> tr, total_routed |-> trouted, total_private |-> tprivate]

\* leaving the with block (loop condition false, or break) and lines 259-266
Finish ==
    /\ \/ pc = "break"
       \/ pc = "loop" /\ ~LoopContinues(next_url)
    /\ routed_open' = FALSE
    /\ private_open' = FALSE
    /\ summary' = <<Summary(total_records, total_routed, total_private)>>
    /\ pc' = "finished"
    /\ UNCHANGED <<fields, fetcher, progress_line, stop_notice, next_url, data,
                   routed_count, private_count, routed_file, private_file,
                   json_error_caught, served, pages_fetched, fetch_calls>>

\* one step of a run; pages is what the API may serve, clock the values
\* time.time() - self.start_time may take
Next(pages, clock) ==
    \/ Start
    \/ FetchCall
    \/ AttemptSuccess(pages)
    \/ AttemptTransportError
    \/ AttemptDecodeError
    \/ Sleep
    \/ FailStop
    \/ ProcessPage(clock)
    \/ Finish

\* ------------------------------------------- methods called on their own
\* the pages handed to process_data when it is exercised on its own
ClassifyPages ==
    {MkPage(TRUE, TRUE, m, FALSE, NoView) : m \in SeqsUpTo(AllSessions, MaxClassifyLen)}

\* a collector whose files are open with their header, about to run
\* process_data on any page
InitClassify ==
    /\ InitObject
    /\ InitIdle
    /\ data \in ClassifyPages
    /\ pc = "process_data"
    /\ routed_file = file_header
    /\ private_file = file_header
    /\ routed_open = TRUE
    /\ private_open = TRUE
    /\ json_error_caught = TRUE

\* routed_count, private_count = self.process_data(data, routed_file, private_file)
CallProcessData ==
    /\ pc = "process_data"
    /\ LET written == process_data(data, routed_file, private_file)
       IN  /\ routed_file' = written.rf
           /\ private_file' = written.pf
           /\ routed_count' = written.rc
           /\ private_count' = written.pc
    /\ pc' = "classified"
    /\ UNCHANGED <<fields, fetcher, console, next_url, data, routed_open, private_open,
                   json_error_caught, served, pages_fetched, fetch_calls>>

\* values of estimated_total_pages explored when the estimator runs on its own
EstimateValues == {None, Some(0), Some(1), Some(2), Some(3), Some(5), Some(100), Some(5000)}

\* a collector in any progress state, about to run display_progress
InitEstimate ==
    /\ total_records = 0
    /\ total_routed = 0
    /\ total_private = 0
    /\ page = 1
    /\ pages_processed \in 0..MaxProcessed
    /\ estimated_total_pages \in EstimateValues
    /\ InitIdle
    /\ data = NoneData
    /\ pc = "display_progress"
    /\ routed_file = file_header
    /\ private_file = file_header
    /\ routed_open = TRUE
    /\ private_open = TRUE
    /\ json_error_caught = TRUE

\* display_progress, lines 196-208
CallDisplayProgress(clock) ==
    /\ pc = "display_progress"
    /\ \E elapsed \in clock :
         progress_line' =
             <<ProgressLine(page, total_routed, total_private,
                            estimate_completion(pages_processed, elapsed,
                                                estimated_total_pages))>>
    /\ pc' = "displayed"
    /\ UNCHANGED <<fields, files, fetcher, stop_notice, summary, next_url, data,
                   routed_count, private_count, json_error_caught, served,
                   pages_fetched, fetch_calls>>

\* runs over pages that vary in their pagination metadata
Spec == Init /\ [][Next(ControlPages, ElapsedValues)]_vars

\* runs over pages that vary in their records, with a requests library whose
\* decode error is no RequestException
InitRecords == Init /\ ~json_error_caught

SpecRecords == InitRecords /\ [][Next(RecordPages, {1})]_vars

\* runs over pages that vary in both pagination references
NextMetadata == Next(MetadataPages, ElapsedValues) \/ UpdateProgressRaises

SpecMetadata == Init /\ [][NextMetadata]_vars

\* the page sends the loop on to another fetch
Continues(d) == LoopContinues(NextUrlAfter(d))

\* the pages of feeds whose continuation chain ends: the control pages and
\* pages with a null hydra:last
ChainPages ==
    ControlPages
    \cup {MkPage(TRUE, TRUE, <<>>, TRUE, MkView(TRUE, RelNext, TRUE, NullRef)),
          MkPage(TRUE, TRUE, <<>>, TRUE, MkView(FALSE, <<>>, TRUE, NullRef))}

\* what the API may serve to the fetch_page call in progress when the chain
\* has at most MaxFetches pages: its last page names no further page
ChainPagesAt == {p \in ChainPages : Continues(p) => fetch_calls < MaxFetches}

NextChain == Next(ChainPagesAt, {1}) \/ UpdateProgressRaises

\* runs over every feed whose chain has at most MaxFetches pages. The program
\* is sequential and each of its steps ends (requests.get has a timeout, a
\* sleep is finite), so a run that can take a step takes one.
SpecChain == Init /\ [][NextChain]_vars /\ WF_vars(NextChain)

\* process_data applied to one page of arbitrary session records
SpecClassify == InitClassify /\ [][CallProcessData]_vars

\* the estimator, within runs and called on a collector in any progress state
InitRunOrEstimate == Init \/ InitEstimate

SpecEstimate ==
    InitRunOrEstimate
    /\ [][Next(ControlPages, ElapsedValues) \/ CallDisplayProgress(ElapsedValues)]_vars

\* =================================================================== claims
\* -------------------------------------------------- reading the model state
\* the lines of a file: [lines |-> the newline-terminated lines, in order,
\* rest |-> what follows the last newline]
RECURSIVE SplitLines(_, _, _, _)
SplitLines(content, i, lines, cur) ==
    IF i > Len(content) THEN [lines |-> lines, rest |-> cur]
    ELSE IF content[i] = NL THEN SplitLines(content, i + 1, Append(lines, cur), <<>>)
    ELSE SplitLines(content, i + 1, lines, Append(cur, content[i]))

LinesOf(content) == SplitLines(content, 1, <<>>, <<>>)

\* the header block, as lines
HeaderLines == LinesOf(file_header).lines

StartsWithHeader(content) ==
    /\ Len(content) >= Len(file_header)
    /\ SubSeq(content, 1, Len(file_header)) = file_header

\* the lines after the header block
DataLines(content) ==
    LET ls == LinesOf(content).lines
    IN  SubSeq(ls, Len(HeaderLines) + 1, Len(ls))

IsError(o) == o # "ok"
AllErrors(os) == \A i \in DOMAIN os : IsError(os[i])

\* an error the except clause of fetch_page catches
Recoverable(o) == o = "transport error" \/ (o = "decode error" /\ json_error_caught)

\* a fetch_page call is in progress
InFetch == pc \in {"attempt", "sleep"}

\* the page carries the key hydra:next inside hydra:view
HasNextKey(d) == ~d.isNone /\ d.hasView /\ d.view.hasNext

\* the page carries a hydra:next whose value is not empty
HasUsableNext(d) == HasNextKey(d) /\ d.view.next # <<>>

C2Delays == <<2, 4>>

\* C2: one fetch_page call makes at most 3 request attempts; it sleeps only
\* between a failed attempt and the next one, 2 then 4 seconds; it returns the
\* payload of the first successful attempt and attempts nothing after it;
\* after 2 failures and a success it has made 3 attempts, slept 2 and 4, and
\* returns the payload; after the third failure it returns without sleeping.
C2BoundedRetry ==
    /\ Len(outcomes) <= 3
    /\ Len(sleeps) <= 2
    /\ sleeps = SubSeq(C2Delays, 1, Len(sleeps))
    /\ pc = "attempt" => (AllErrors(outcomes) /\ Len(sleeps) = Len(outcomes)
                          /\ attempt = Len(outcomes))
    /\ pc = "sleep" => (AllErrors(outcomes) /\ outcomes # <<>>
                        /\ Len(sleeps) = Len(outcomes) - 1)
    /\ pc = "returned" =>
          /\ outcomes # <<>>
          /\ Len(sleeps) = Len(outcomes) - 1
          /\ AllErrors(SubSeq(outcomes, 1, Len(outcomes) - 1))
          /\ IF outcomes[Len(outcomes)] = "ok"
             THEN /\ ~data.isNone
                  /\ Len(served) >= Len(Members(data))
                  /\ Members(data) =
                        SubSeq(served, Len(served) - Len(Members(data)) + 1, Len(served))
             ELSE Len(outcomes) = 3 /\ data.isNone
    /\ (pc = "returned" /\ Len(outcomes) = 3 /\ outcomes[3] = "ok") =>
          (sleeps = <<2, 4>> /\ ~data.isNone)

\* two transport errors, then a success: three attempts, delays 2 and 4
C2Witness ==
    /\ pc = "returned"
    /\ outcomes = <<"transport error", "transport error", "ok">>
    /\ sleeps = <<2, 4>>
    /\ Truthy(data)

\* --------------------------------------------- what the files should hold
\* the classification as the specification words it
ClientPresent(s) == s.client4 \notin {Absent, Null, ""}
IsRoutedRecord(s) == ClientPresent(s) /\ s.routedspoof = "received"
IsPrivateRecord(s) == ClientPresent(s) /\ s.privatespoof = "received"

\* the formatted lines of the routed (private) matches among records, in order
RECURSIVE ExpectedRouted(_)
ExpectedRouted(records) ==
    IF records = <<>> THEN <<>>
    ELSE (IF IsRoutedRecord(Head(records))
          THEN format_record(Head(records)) \o <<NL>> ELSE <<>>)
         \o ExpectedRouted(Tail(records))

RECURSIVE ExpectedPrivate(_)
ExpectedPrivate(records) ==
    IF records = <<>> THEN <<>>
    ELSE (IF IsPrivateRecord(Head(records))
          THEN format_record(Head(records)) \o <<NL>> ELSE <<>>)
         \o ExpectedPrivate(Tail(records))

\* number of positions of seq that hold x
CountIn(seq, x) == Cardinality({i \in DOMAIN seq : seq[i] = x})

\* the records of the pages the loop body has been through
Processed ==
    IF pc = "returned" THEN SubSeq(served, 1, Len(served) - Len(Members(data)))
    ELSE served

\* ------------------------------------------------------------------------ C3
\* C3: when all 3 attempts for the current URL fail with an error the except
\* clause catches, fetch_page returns None instead of raising; collect_data
\* then prints the failure notice, calls fetch_page no more, closes both
\* files and prints the summary with the counters accumulated so far; the
\* files still hold the header and every line of the pages processed before.
C3GracefulFailure ==
    /\ (Len(outcomes) = 3 /\ \A i \in 1..3 : Recoverable(outcomes[i])) =>
          (pc = "returned" /\ data = NoneData)
    /\ (pc \in {"break", "finished"} /\ data.isNone) =>
          (stop_notice /\ fetch_calls = pages_fetched + 1)
    /\ (stop_notice /\ data.isNone) => pc \in {"break", "finished"}
    /\ (pc = "finished" /\ data.isNone) =>
          /\ ~routed_open /\ ~private_open
          /\ summary = <<Summary(total_records, total_routed, total_private)>>
          /\ total_records = Len(served)
          /\ total_routed = Len(SelectSeq(served, IsRoutedRecord))
          /\ total_private = Len(SelectSeq(served, IsPrivateRecord))
          /\ routed_file = file_header \o ExpectedRouted(served)
          /\ private_file = file_header \o ExpectedPrivate(served)

\* a run that wrote a page's lines and failed on the next page
C3Witness ==
    /\ pc = "finished"
    /\ data.isNone
    /\ stop_notice
    /\ pages_processed = 1
    /\ total_routed = 1
    /\ summary # <<>>

\* ------------------------------------------------------------------------ C8
\* every formatted line the served records can produce
RecordLines == {format_record(s) : s \in FeedSessions}

\* the file is the header block followed by complete record lines only
HeaderThenLines(content) ==
    /\ StartsWithHeader(content)
    /\ CountIn(content, file_header[1]) = 1
    /\ LinesOf(content).rest = <<>>
    /\ \A i \in DOMAIN DataLines(content) : DataLines(content)[i] \in RecordLines

\* C8: collect_data writes the header block to each output file exactly once,
\* before the first fetch and before any data line; from then on, on every
\* path out of the run (finished after the last page, finished after a failed
\* fetch on any page, or left by an exception), each file begins with the
\* header and holds only complete newline-terminated lines after it.
C8HeaderFirstOnce ==
    /\ pc = "start" => fetch_calls = 0
    /\ (pc # "start" /\ fetch_calls = 0) =>
          (routed_file = file_header /\ private_file = file_header)
    /\ pc # "start" => (HeaderThenLines(routed_file) /\ HeaderThenLines(private_file))

\* a run that failed on its first page: each file holds the header alone
C8Witness ==
    /\ pc = "finished"
    /\ stop_notice
    /\ fetch_calls = 1
    /\ pages_fetched = 0
    /\ routed_file = file_header
    /\ private_file = file_header

\* ------------------------------------------------------------------------ C4
\* number of records of the sequence that satisfy the routed (private)
\* predicate and are formatted as line
RoutedRecordsAs(records, line) ==
    Cardinality({i \in DOMAIN records :
                    IsRoutedRecord(records[i]) /\ format_record(records[i]) = line})
PrivateRecordsAs(records, line) ==
    Cardinality({i \in DOMAIN records :
                    IsPrivateRecord(records[i]) /\ format_record(records[i]) = line})

\* C4: throughout a run and at its end, each record of a processed page that
\* is a routed match has exactly one line in the routed file and each that is
\* a private match exactly one line in the private file; the files hold no
\* other data line (none for a record that fails the file's predicate).
C4ExactlyOnce ==
    pc # "start" =>
        LET routed_lines == DataLines(routed_file)
            private_lines == DataLines(private_file)
            records == Processed
        IN  /\ \A i \in DOMAIN routed_lines : routed_lines[i] \in RecordLines
            /\ \A i \in DOMAIN private_lines : private_lines[i] \in RecordLines
            /\ \A line \in RecordLines :
                  /\ CountIn(routed_lines, line) = RoutedRecordsAs(records, line)
                  /\ CountIn(private_lines, line) = PrivateRecordsAs(records, line)

\* a finished run that served a record for both files, one for the private
\* file alone and one for neither
C4Witness ==
    /\ pc = "finished"
    /\ pages_processed = 2
    /\ \E i, j, k \in DOMAIN served :
          served[i] = SBoth /\ served[j] = SPrivateOnly /\ served[k] = SNoClient
    /\ Len(DataLines(routed_file)) = 1
    /\ Len(DataLines(private_file)) = 2

\* ------------------------------------------------------------------------ C7
\* number of newline-terminated lines that follow the header block
NumDataLines(content) == CountIn(content, NL) - CountIn(file_header, NL)

\* C7: after every processed page and in the final summary total_routed is
\* the number of data lines of the routed file, total_private that of the
\* private file and total_records the number of records of all fetched pages;
\* a run over one routed-only, one private-only and one non-matching eligible
\* record reports 3, 1 and 1 and leaves one data line in each file.
C7CountersAgree ==
    /\ pc # "start" =>
          /\ total_routed = NumDataLines(routed_file)
          /\ total_private = NumDataLines(private_file)
          /\ total_records = Len(Processed)
    /\ pc = "finished" =>
          /\ total_records = Len(served)
          /\ summary = <<Summary(Len(served), NumDataLines(routed_file),
                                 NumDataLines(private_file))>>
    /\ (pc = "finished" /\ Len(served) = 3
        /\ {served[i] : i \in DOMAIN served} = {SRoutedOnly, SPrivateOnly, SNeither}) =>
          /\ summary = <<Summary(3, 1, 1)>>
          /\ NumDataLines(routed_file) = 1
          /\ NumDataLines(private_file) = 1

\* the three-record feed, served over two pages
C7Witness ==
    /\ pc = "finished"
    /\ pages_processed = 2
    /\ served = <<SRoutedOnly, SPrivateOnly, SNeither>>
    /\ summary = <<Summary(3, 1, 1)>>

\* ------------------------------------------------------------------------ C9
\* C9: pages are fetched one at a time along the continuation chain, the
\* lines of a page are all in the files before the next fetch_page call, and
\* each file holds its data lines in page order and, within a page, in the
\* order of the member list.
C9WriteOrdering ==
    /\ pc # "start" =>
          /\ routed_file = file_header \o ExpectedRouted(Processed)
          /\ private_file = file_header \o ExpectedPrivate(Processed)
    /\ InFetch =>
          /\ routed_file = file_header \o ExpectedRouted(served)
          /\ private_file = file_header \o ExpectedPrivate(served)
          /\ fetch_calls = pages_processed + 1
          /\ url = api_base \o (IF fetch_calls = 1 THEN StartUrl ELSE data.view.next)
    /\ fetch_calls <= pages_processed + 1

\* two pages whose routed matches differ, all in the routed file in order
C9Witness ==
    /\ pc = "finished"
    /\ pages_processed = 2
    /\ served = <<SRoutedOnly, SBoth, SRoutedOnly>>
    /\ Len(DataLines(routed_file)) = 3

\* ------------------------------------------------------------------------ C5
ClientMissing(s) == s.client4 \in {Absent, Null, ""}

\* the lines of a file, as a set
LineSet(content) == {DataLines(content)[i] : i \in DOMAIN DataLines(content)}

\* C5: process_data writes no line for a record whose client4 is absent (or
\* null) or empty, whatever its routedspoof and privatespoof, and counts no
\* match for it: a page of such records alone leaves both files as they were
\* and returns (0, 0).
C5AbsentClientNoMatch ==
    pc = "classified" =>
        LET m == Members(data)
            present == Len(SelectSeq(m, ClientPresent))
        IN  /\ \A i \in DOMAIN m :
                  ClientMissing(m[i]) =>
                      /\ format_record(m[i]) \notin LineSet(routed_file)
                      /\ format_record(m[i]) \notin LineSet(private_file)
            /\ routed_count <= present
            /\ private_count <= present
            /\ (\A i \in DOMAIN m : ClientMissing(m[i])) =>
                  /\ routed_file = file_header
                  /\ private_file = file_header
                  /\ routed_count = 0
                  /\ private_count = 0

\* a record with an empty client4 and both fields "received", left unwritten
C5Witness ==
    /\ pc = "classified"
    /\ Members(data) = <<MkSession("s", "", "received", "received")>>
    /\ routed_file = file_header
    /\ private_file = file_header
    /\ routed_count = 0
    /\ private_count = 0

\* ------------------------------------------------------------------------ C6
\* C6: for records with a client4, process_data writes the record's line to
\* the routed file iff routedspoof is exactly "received" and to the private
\* file iff privatespoof is exactly "received", each test on its own; a
\* record with both fields "received" gets the same line once in each file.
C6IndependentMatches ==
    pc = "classified" =>
        LET m == Members(data)
        IN  /\ routed_file = file_header \o ExpectedRouted(m)
            /\ private_file = file_header \o ExpectedPrivate(m)
            /\ routed_count = Len(SelectSeq(m, IsRoutedRecord))
            /\ private_count = Len(SelectSeq(m, IsPrivateRecord))
            /\ (Len(m) = 1 /\ ClientPresent(m[1])) =>
                  LET line == format_record(m[1]) \o <<NL>>
                  IN  /\ routed_count = 1 <=> m[1].routedspoof = "received"
                      /\ routed_count = 0 <=> m[1].routedspoof # "received"
                      /\ private_count = 1 <=> m[1].privatespoof = "received"
                      /\ private_count = 0 <=> m[1].privatespoof # "received"
                      /\ routed_file = file_header \o line <=> m[1].routedspoof = "received"
                      /\ private_file = file_header \o line <=> m[1].privatespoof = "received"

\* a record with both fields "received": one identical line in each file
C6Witness ==
    /\ pc = "classified"
    /\ Members(data) = <<MkSession("s", "192.0.2.1", "received", "received")>>
    /\ routed_count = 1
    /\ private_count = 1
    /\ routed_file = private_file
    /\ Len(DataLines(routed_file)) = 1

\* ----------------------------------------------------------------------- C10
\* C10: whenever pages_processed < 2 the progress line carries the
\* placeholder "Calculating..." and no numeric estimate, for every elapsed
\* time and whether or not estimated_total_pages is known, both when
\* display_progress is called on a collector in any state and after the first
\* page of a run.
C10EtaPlaceholder ==
    (progress_line # <<>> /\ pages_processed < 2) =>
        /\ progress_line[1].eta.kind = "Calculating..."
        /\ progress_line[1].eta = Eta("Calculating...", 0, 0)

\* the progress line after the first page of a run that learnt the total
C10Witness ==
    /\ pc = "loop"
    /\ pages_processed = 1
    /\ estimated_total_pages = Some(3)
    /\ progress_line # <<>>
    /\ progress_line[1].eta.kind = "Calculating..."

\* ----------------------------------------------------------------------- C11
\* the remaining time (E - P) * (T / P) as the fraction num / P, put in its
\* bucket: seconds when under 60, minutes when under 3600, hours and minutes
\* otherwise, each figure cut to a whole number
C11Expected(E, P, T) ==
    LET num == (E - P) * T
    IN  IF num < 60 * P THEN Eta("seconds", TruncDiv(num, P), 0)
        ELSE IF num < 3600 * P THEN Eta("minutes", TruncDiv(num, 60 * P), 0)
        ELSE Eta("hours, minutes", TruncDiv(num, 3600 * P),
                 TruncDiv(num % (3600 * P), 60 * P))

\* C11 as stated: whenever estimated_total_pages holds a value E (any integer
\* taken from a hydra:last reference) and pages_processed = P >= 2, the
\* progress line carries the remaining time (E - P) * (T / P) for the elapsed
\* time T of the call, negative when E < P, in its bucket.
C11AsStated ==
    (progress_line # <<>> /\ pages_processed >= 2 /\ estimated_total_pages # None) =>
        \E T \in ElapsedValues :
            progress_line[1].eta =
                C11Expected(estimated_total_pages[1], pages_processed, T)

\* the same for every known estimate other than 0
C11ForNonZero ==
    (progress_line # <<>> /\ pages_processed >= 2 /\ estimated_total_pages # None
     /\ estimated_total_pages # Some(0)) =>
        \E T \in ElapsedValues :
            progress_line[1].eta =
                C11Expected(estimated_total_pages[1], pages_processed, T)

\* ----------------------------------------------------------------------- C12
\* the page carries a hydra:last that names no page: no page parameter, a page
\* value that is no number, or a value that is no reference at all
C12MalformedLast(d) ==
    /\ ~d.isNone /\ d.hasView /\ d.view.hasLast
    /\ d.view.last \in {LastNoPageParam, LastPageWord, LastPageEmpty, NullRef}

\* the same, for the hydra:last values that are strings
C12MalformedString(d) == C12MalformedLast(d) /\ d.view.last # NullRef

\* C12 as stated: the loop body on a fetched page whose hydra:last is
\* malformed counts the page, leaves estimated_total_pages as it was and goes
\* on with the loop instead of raising; and every progress line shown at
\* pages_processed >= 2 while the estimate is unset (the state in which the
\* loop body leaves the line) carries the pages/second message.
C12AsStated ==
    /\ [][(pc = "returned" /\ Truthy(data) /\ C12MalformedLast(data)) =>
            /\ pc' = "loop"
            /\ pages_processed' = pages_processed + 1
            /\ estimated_total_pages' = estimated_total_pages]_vars
    /\ [](pc = "loop" /\ pages_processed >= 2 /\ estimated_total_pages = None =>
            progress_line[1].eta.kind = "pages/second")

\* the same for the malformed hydra:last values that are strings
C12ForStrings ==
    /\ [][(pc = "returned" /\ Truthy(data) /\ C12MalformedString(data)) =>
            /\ pc' = "loop"
            /\ pages_processed' = pages_processed + 1
            /\ estimated_total_pages' = estimated_total_pages]_vars
    /\ [](pc = "loop" /\ pages_processed >= 2 /\ estimated_total_pages = None =>
            progress_line[1].eta.kind = "pages/second")

\* ----------------------------------------------------------------------- C13
\* an attempt of the fetch_page call in progress received a body that is no JSON
C13ContentFailure == \E i \in DOMAIN outcomes : outcomes[i] = "decode error"

\* C13 as stated: a response body that is no valid JSON does not make
\* fetch_page raise; the attempt that received it is the last of the call (no
\* sleep and no further attempt follow it); and the call returns None, on
\* which collect_data prints the failure notice and stops.
C13AsStated ==
    /\ C13ContentFailure => pc # "crashed"
    /\ C13ContentFailure =>
          (outcomes[Len(outcomes)] = "decode error" /\ pc \notin {"sleep", "attempt"})
    /\ (C13ContentFailure /\ pc = "returned") => data = NoneData

\* with a requests library whose decode error is a RequestException, the
\* content failure is handled as a transport failure is: fetch_page does not
\* raise, sleeps and tries again while attempts remain, and returns None
\* after a third failed attempt only
C13AsTransportFailure ==
    (json_error_caught /\ C13ContentFailure) =>
        /\ pc # "crashed"
        /\ pc = "sleep" => Len(outcomes) < 3
        /\ (pc = "returned" /\ outcomes[Len(outcomes)] = "decode error") =>
              (Len(outcomes) = 3 /\ data = NoneData)
        /\ (pc = "returned" /\ outcomes[Len(outcomes)] = "ok") => ~data.isNone

\* ----------------------------------------------------------------------- C14
\* C14 as stated: once estimated_total_pages holds a value, whatever integer a
\* hydra:last reference carried (0 included), no later step changes it.
C14AsStated ==
    [][estimated_total_pages # None =>
          estimated_total_pages' = estimated_total_pages]_vars

\* the same for every value other than 0
C14ForNonZero ==
    [][(estimated_total_pages # None /\ estimated_total_pages # Some(0)) =>
          estimated_total_pages' = estimated_total_pages]_vars

\* ----------------------------------------------------------------------- C15
\* the reference carries its own scheme and host
C15IsAbsolute(ref) == ref # <<>> /\ ref[1] = api_base[1]

\* the URL a reference names: itself when absolute, otherwise the reference
\* resolved against the API base
C15Target(ref) == IF C15IsAbsolute(ref) THEN ref ELSE api_base \o ref

\* the reference the fetch_page call in progress should follow
C15Reference == IF fetch_calls = 1 THEN StartUrl ELSE data.view.next

\* C15 as stated: the first fetch_page call of a run targets the starting
\* URL, and every later one the URL that the hydra:next of the page processed
\* before it names, whether that reference is relative or absolute.
C15AsStated ==
    InFetch => url = C15Target(C15Reference)

\* the same for relative references
C15ForRelative ==
    (InFetch /\ ~C15IsAbsolute(C15Reference)) => url = C15Target(C15Reference)

\* ----------------------------------------------------------------------- C16
\* C16 as stated: fetch_page returns None only after three failed attempts;
\* collect_data prints the failure notice and stops early exactly when
\* fetch_page returned None; and every page a successful attempt returned,
\* the empty payload and pages without member records included, has been
\* through the loop body (counted in pages_processed) once the loop is left
\* or goes round.
C16AsStated ==
    /\ (pc = "returned" /\ data.isNone) => (Len(outcomes) = 3 /\ AllErrors(outcomes))
    /\ stop_notice => data.isNone
    /\ (pc \in {"break", "finished"} /\ data.isNone) => stop_notice
    /\ pc \in {"loop", "break", "finished"} => pages_processed = pages_fetched

\* the same with the empty payload {} taken as a failed fetch
C16ForNonEmpty ==
    /\ (pc = "returned" /\ data.isNone) => (Len(outcomes) = 3 /\ AllErrors(outcomes))
    /\ stop_notice => (data.isNone \/ data = EmptyPayload)
    /\ (pc \in {"break", "finished"} /\ (data.isNone \/ data = EmptyPayload)) => stop_notice
    /\ pc \in {"loop", "break", "finished"} =>
          pages_processed = pages_fetched - (IF data = EmptyPayload THEN 1 ELSE 0)

\* ----------------------------------------------------------------------- C17
\* the resources of a run: each fetch_page call makes at most 3 request
\* attempts, a call is made for a page of the chain only (one call per fetched
\* page and at most one that fetched none), and a run that ended without the
\* failure notice made exactly one call per page of the chain
C17Resources ==
    /\ Len(outcomes) <= 3
    /\ fetch_calls <= pages_fetched + 1
    /\ (pc = "finished" /\ ~stop_notice) => fetch_calls = pages_fetched

\* C17 as stated: over every feed whose continuation chain is finite and
\* every pattern of failed attempts, collect_data eventually reaches DONE or
\* FAILED (the end of collect_data, with or without the failure notice),
\* having made at most one fetch_page call per page of the chain and at most
\* 3 request attempts per call.
C17AsStated ==
    /\ <>(pc = "finished")
    /\ []C17Resources

\* every run over a finite chain ends, in DONE, in FAILED or by an exception,
\* within the same resources
C17EndsOrRaises ==
    /\ <>(pc \in {"finished", "crashed"})
    /\ []C17Resources

\* an exception leaves collect_data only from response.json() or from
\* update_progress on a hydra:last that is no str
C17RaisedBy ==
    pc = "crashed" =>
        \/ outcomes[Len(outcomes)] = "decode error" /\ ~json_error_caught
        \/ outcomes[Len(outcomes)] = "ok" /\ data.view.last = NullRef

\* ----------------------------------------------------------------------- C18
\* C18: once the header is written, no step inside fetch_page (a failed
\* attempt, a backoff sleep, the attempt that returns) and no step taken on a
\* fetch that delivered no page (the failure notice and the end of the run
\* after it) changes total_records, total_routed, total_private, page,
\* pages_processed, estimated_total_pages or the contents of either output
\* file; a step that changes one of them is the loop body on a page that a
\* successful attempt returned.
C18FrameEffect ==
    [][LET kept == UNCHANGED <<fields, routed_file, private_file>>
       IN  /\ pc \in {"attempt", "sleep"} => kept
           /\ (pc = "returned" /\ data.isNone) => kept
           /\ pc = "break" => kept
           /\ (pc # "start" /\ ~kept) =>
                 /\ pc = "returned"
                 /\ ~data.isNone
                 /\ outcomes[Len(outcomes)] = "ok"]_vars

\* a run that processed a page (a record written, the estimate learnt) and
\* then failed on the next page after its three attempts: counters, estimate
\* and files are those of the first page
C18Witness ==
    /\ pc = "break"
    /\ data.isNone
    /\ fetch_calls = 2
    /\ pages_processed = 1 /\ page = 2
    /\ total_records = 1 /\ total_routed = 1 /\ total_private = 1
    /\ estimated_total_pages = Some(3)
    /\ routed_file = file_header \o format_record(SBoth) \o <<NL>>
    /\ private_file = routed_file

\* ----------------------------------------------------------------------- C19
\* C19: from the call of fetch_page until it returns, page = pages_processed
\* + 1; the progress line shows a page number equal to pages_processed; a run
\* that ends without the failure notice on a page with no hydra:next key ends
\* with page = pages_processed, and a run that ends with the failure notice
\* ends with page = pages_processed + 1.
C19PageInStep ==
    /\ InFetch => page = pages_processed + 1
    /\ progress_line # <<>> => progress_line[1].page = pages_processed
    /\ (pc = "finished" /\ ~stop_notice /\ ~HasNextKey(data)) => page = pages_processed
    /\ (pc = "finished" /\ stop_notice) => page = pages_processed + 1

\* a run of two pages that ended on a page without hydra:next
C19Witness ==
    /\ pc = "finished"
    /\ ~stop_notice
    /\ ~HasNextKey(data)
    /\ pages_processed = 2 /\ page = 2
    /\ progress_line[1].page = 2

====
